---- MODULE Spec2Model ----
(***************************************************************************)
(* The subscription engine of unraid-mcp                                   *)
(* (src/unraid_mcp/subscriptions/manager.py): SubscriptionManager with its *)
(* start/stop operations, the asyncio lock that guards them, and the       *)
(* reconnection loop (_subscription_loop) that every started subscription  *)
(* runs as an asyncio task.                                                *)
(* The lazy start of the subscriptions                                     *)
(* (src/unraid_mcp/subscriptions/resources.py) is part of it.              *)
(*                                                                         *)
(* asyncio is cooperative: a coroutine runs without interruption from one  *)
(* await to the next.  Every action below is one such uninterrupted run.   *)
(***************************************************************************)
EXTENDS Integers, Sequences, FiniteSets, TLC

(***************************************************************************)
(* Bounds of the model.                                                    *)
(***************************************************************************)
MaxTasks == 3
MaxWaiters == 2
MaxAttempts == 1
MaxClock == 2
LoopMaxAttempts == 12
MaxUrlLen == 7
MaxReaders == 2

(***************************************************************************)
(* Program constants.                                                      *)
(***************************************************************************)
InitialRetryDelay == 5
max_retry_delay == 300

\* retry_delay is a float that starts at 5 and is multiplied by 1.5 up to the
\* ceiling of 300.  Every value below the ceiling is 5 * 3^j / 2^j with j <= 10,
\* which a float holds exactly, so the delay is kept as the integer number of
\* 1/2^10 seconds; the one product above the ceiling is replaced by it.
Scale == 2 ^ 10

Names == {"logFileSubscription", "other"}
NoTask == 0
LogName == "logFileSubscription"
NoData == [data |-> "none", last_updated |-> 0]
None == "None"
Raised == "raised"

Protocols == {"graphql-transport-ws", "graphql-ws"}

\* websocket.subprotocol or "none" (line 201): the server may select neither.
SelectedProtocols == Protocols \union {"none"}

\* The query and the variables a caller gives to start_subscription.
Requests == {[query |-> "q1", variables |-> "v1"],
             [query |-> "q2", variables |-> "v2"]}
NoRequest == [query |-> "none", variables |-> "none"]
NoMessage == [id |-> "none", type |-> "none", payload |-> NoRequest]

VARIABLES
    active_subscriptions,   \* name -> task id, NoTask when the key is absent
    resource_data,          \* name -> SubscriptionData, NoData when absent
    reconnect_attempts,     \* name -> counter (.get(name, 0))
    connection_states,      \* name -> state (.get(name, "not_started"))
    last_error,             \* name -> error text, None when absent
    max_reconnect_attempts, \* UNRAID_MAX_RECONNECT_ATTEMPTS
    UNRAID_API_URL,         \* config.settings.UNRAID_API_URL, <<>> when unset
    lock_holder,            \* the coroutine that owns subscription_lock
    lock_waiters,           \* the coroutines waiting in subscription_lock, FIFO
    tasks,                  \* task id -> the _subscription_loop task
    now,                    \* datetime.now()
    stop_returned,          \* history: stop(name) returned, no start(name) since
    last_present,           \* history: payload.data of the last data message
    last_truthy,            \* history: the last data message that was cached
    failed_connects,        \* history: attempts in a row that did not connect
    subscriptions_started,  \* resources._subscriptions_started
    auto_start_enabled,     \* UNRAID_AUTO_START_SUBSCRIPTIONS is "true"
    autostart_log_path,     \* UNRAID_AUTOSTART_LOG_PATH and /var/log/syslog
    readers,                \* reader -> its place in ensure_subscriptions_started
    autostart_runs          \* history: runs of autostart_subscriptions

mgr == <<active_subscriptions, resource_data, reconnect_attempts,
         connection_states, last_error>>
hist == <<stop_returned, last_present, last_truthy, failed_connects>>
lazy == <<subscriptions_started, auto_start_enabled, autostart_log_path,
          readers, autostart_runs>>
\* The manager, its tasks and their history.
mvars == <<active_subscriptions, resource_data, reconnect_attempts,
           connection_states, last_error, max_reconnect_attempts,
           UNRAID_API_URL, lock_holder, lock_waiters, tasks, now,
           stop_returned, last_present, last_truthy, failed_connects>>
vars == <<active_subscriptions, resource_data, reconnect_attempts,
          connection_states, last_error, max_reconnect_attempts,
          UNRAID_API_URL, lock_holder, lock_waiters, tasks, now,
          stop_returned, last_present, last_truthy, failed_connects,
          subscriptions_started, auto_start_enabled, autostart_log_path,
          readers, autostart_runs>>

TaskIds == 1 .. MaxTasks
\* The caller of a start or stop: a reader in the lazy start, or NoReader for
\* a direct call.
ReaderIds == 1 .. MaxReaders
NoReader == 0
NoLock == [op |-> "none", name |-> "none", phase |-> "none",
           request |-> NoRequest, caller |-> NoReader]
FreshTask == [name |-> "none", pc |-> "none", retry_delay |-> 0,
              proto |-> "none", exit |-> "none", cancel |-> FALSE,
              k |-> 0, faults |-> 0, authed |-> FALSE,
              request |-> NoRequest, sent |-> NoMessage, ws_url |-> <<>>]

Min(a, b) == IF a < b THEN a ELSE b

(***************************************************************************)
(* URLs.  A URL is the sequence of its pieces: a scheme with its colon, a  *)
(* slash, the word graphql, or any other run of characters without a       *)
(* slash ("h").                                                            *)
(***************************************************************************)
UrlPieces == {"https:", "http:", "/", "graphql", "h"}
Urls == UNION {[1 .. k -> UrlPieces] : k \in 0 .. MaxUrlLen}
DefaultUrl == <<"http:", "/", "/", "h">>

\* Line 169.
api_url_configured == UNRAID_API_URL # <<>>

\* str.startswith and str.endswith.
startswith(s, p) == Len(s) >= Len(p) /\ SubSeq(s, 1, Len(p)) = p
endswith(s, p) ==
    Len(s) >= Len(p) /\ SubSeq(s, Len(s) - Len(p) + 1, Len(s)) = p

\* str.rstrip("/").
RECURSIVE rstrip(_)
rstrip(s) ==
    IF s # <<>> /\ s[Len(s)] = "/" THEN rstrip(SubSeq(s, 1, Len(s) - 1)) ELSE s

\* Lines 172-177.
SchemeReplaced(url) ==
    IF startswith(url, <<"https:", "/", "/">>)
    THEN <<"wss:", "/", "/">> \o SubSeq(url, 4, Len(url))
    ELSE IF startswith(url, <<"http:", "/", "/">>)
    THEN <<"ws:", "/", "/">> \o SubSeq(url, 4, Len(url))
    ELSE url

\* Lines 172-180.
ws_url(url) ==
    IF ~endswith(SchemeReplaced(url), <<"/", "graphql">>)
    THEN rstrip(SchemeReplaced(url)) \o <<"/", "graphql">>
    ELSE SchemeReplaced(url)

(***************************************************************************)
(* Readers.                                                                *)
(***************************************************************************)
\* get_resource_data serving the cache only while the state is a live one.
get_resource_data_live(n) ==
    IF resource_data[n] # NoData
       /\ connection_states[n] \notin {"reconnecting", "max_retries_exceeded"}
    THEN resource_data[n].data ELSE None

\* get_resource_data indexing the cache without the test of line 449.
get_resource_data_indexed(n) ==
    IF resource_data[n] # NoData THEN resource_data[n].data ELSE Raised

\* Lines 445-456.
get_resource_data(n) ==
    IF resource_data[n] # NoData THEN resource_data[n].data ELSE None

list_active_subscriptions == {n \in Names : active_subscriptions[n] # NoTask}

\* subscription_configs holds one entry, logFileSubscription.
subscription_configs == {"logFileSubscription"}

get_subscription_status ==
    [n \in subscription_configs |->
        [active |-> active_subscriptions[n] # NoTask,
         connection_state |-> connection_states[n],
         reconnect_attempts |-> reconnect_attempts[n],
         last_error |-> last_error[n],
         available |-> resource_data[n] # NoData,
         age_seconds |-> IF resource_data[n] # NoData
                         THEN now - resource_data[n].last_updated
                         ELSE 0]]

\* A call of get_resource_data or of get_subscription_status: synchronous, it
\* takes no lock and writes nothing.
ReadData(n) ==
    /\ get_resource_data(n) # Raised
    /\ UNCHANGED vars

ReadStatus ==
    /\ DOMAIN get_subscription_status = subscription_configs
    /\ UNCHANGED vars

(***************************************************************************)
(* Construction.                                                           *)
(***************************************************************************)
InitManager ==
    /\ active_subscriptions = [n \in Names |-> NoTask]
    /\ resource_data = [n \in Names |-> NoData]
    /\ reconnect_attempts = [n \in Names |-> 0]
    /\ connection_states = [n \in Names |-> "not_started"]
    /\ last_error = [n \in Names |-> None]
    /\ lock_holder = NoLock
    /\ lock_waiters = <<>>
    /\ tasks = [t \in TaskIds |-> FreshTask]
    /\ now = 0
    /\ stop_returned = [n \in Names |-> FALSE]
    /\ last_present = [n \in Names |-> "none"]
    /\ last_truthy = [n \in Names |-> NoData]
    /\ failed_connects = [n \in Names |-> 0]
    /\ subscriptions_started = FALSE
    /\ readers = [r \in ReaderIds |-> "idle"]
    /\ autostart_runs = 0

\* The environment of the process: the auto-start flag is not set (its default
\* is "true") and no log path is found.
InitEnv ==
    /\ auto_start_enabled = TRUE
    /\ autostart_log_path = "none"

Init ==
    /\ InitEnv
    /\ InitManager
    /\ max_reconnect_attempts = MaxAttempts
    /\ UNRAID_API_URL = DefaultUrl

(***************************************************************************)
(* subscription_lock, an asyncio.Lock: FIFO, and a release hands the lock  *)
(* to the first waiter, which runs its critical section when it is next    *)
(* scheduled.                                                              *)
(***************************************************************************)
\* A critical section that is left without a release.
ReleasedHolder_kept == lock_holder

ReleasedHolder ==
    IF lock_waiters = <<>> THEN NoLock
    ELSE [op |-> Head(lock_waiters).op, name |-> Head(lock_waiters).name,
          phase |-> "ready", request |-> Head(lock_waiters).request,
          caller |-> Head(lock_waiters).caller]

ReleasedWaiters == IF lock_waiters = <<>> THEN <<>> ELSE Tail(lock_waiters)

Created == Cardinality({t \in TaskIds : tasks[t].pc # "none"})

PendingStarts ==
    Cardinality({i \in 1 .. Len(lock_waiters) : lock_waiters[i].op = "start"})
    + (IF lock_holder.op = "start" THEN 1 ELSE 0)

NextTask == Created + 1

Finished(n) == [FreshTask EXCEPT !.name = n, !.pc = "done"]

(***************************************************************************)
(* start_subscription                                                      *)
(***************************************************************************)
\* start_subscription without the test of line 99.
AlreadyActive_unchecked(n) == FALSE

\* Line 99.
AlreadyActive(n) == active_subscriptions[n] # NoTask

\* Lines 110-118, run while holding the lock: create the task and register it.
\* cs is connection_states as the caller left it, q the query and variables.
StartLockedBody(n, q, cs) ==
    /\ tasks' = [tasks EXCEPT ![NextTask] =
                    [FreshTask EXCEPT !.name = n, !.pc = "new",
                                      !.request = q]]
    /\ active_subscriptions' = [active_subscriptions EXCEPT ![n] = NextTask]
    /\ connection_states' = [cs EXCEPT ![n] = "active"]

\* Lines 119-125: create_task raised; the state and the error are recorded and
\* the exception goes to the caller.
StartFailedBody(n, cs) ==
    /\ connection_states' = [cs EXCEPT ![n] = "failed"]
    /\ last_error' = [last_error EXCEPT ![n] = "create_task_failed"]
    /\ UNCHANGED <<tasks, active_subscriptions>>

\* Lines 109-125: the critical section, where create_task works or raises.
StartLockedOutcome(n, q, cs, created) ==
    IF created
    THEN StartLockedBody(n, q, cs) /\ UNCHANGED last_error
    ELSE StartFailedBody(n, cs)

\* Line 109: the call has to wait for the lock.
StartWaits(n) == ~AlreadyActive(n) /\ lock_holder # NoLock

\* Lines 110-125: the call gets the lock at once and create_task raises.
StartRaises(n, created) ==
    ~AlreadyActive(n) /\ lock_holder = NoLock /\ ~created

\* A reset that clears the counter of every name.
ResetAttempts_all(n) == [m \in Names |-> 0]

\* Lines 106-107.
ResetAttempts(n) == [reconnect_attempts EXCEPT ![n] = 0]

\* Lines 93-125, called by c; created tells whether create_task works.
StartCall(n, q, c, created) ==
    IF AlreadyActive(n)
    THEN UNCHANGED mvars
    ELSE /\ Created + PendingStarts < MaxTasks
         /\ reconnect_attempts' = ResetAttempts(n)
         /\ stop_returned' = [stop_returned EXCEPT ![n] = FALSE]
         /\ failed_connects' = [failed_connects EXCEPT ![n] = 0]
         /\ IF lock_holder = NoLock
            THEN /\ StartLockedOutcome(n, q, [connection_states EXCEPT
                                                   ![n] = "starting"], created)
                 /\ UNCHANGED <<lock_holder, lock_waiters>>
            ELSE /\ Len(lock_waiters) < MaxWaiters
                 /\ connection_states' = [connection_states EXCEPT ![n] = "starting"]
                 /\ lock_waiters' = Append(lock_waiters,
                                            [op |-> "start", name |-> n,
                                             request |-> q, caller |-> c])
                 /\ UNCHANGED <<lock_holder, tasks, active_subscriptions,
                                last_error>>
         /\ UNCHANGED <<resource_data, max_reconnect_attempts,
                        UNRAID_API_URL, now, last_present, last_truthy>>

\* A direct call of start_subscription.
start_subscription(n, q) ==
    /\ StartCall(n, q, NoReader, TRUE)
    /\ UNCHANGED lazy

\* What create_task raises when it fails: an exception that derives from
\* Exception.
CreateTaskError == "Exception"

\* asyncio.CancelledError derives from BaseException.
CancelledError == "BaseException"

\* An except clause that catches nothing.
Catches_none(exc) == FALSE

\* An except clause that catches every exception (`except BaseException`).
Catches_all(exc) == TRUE

\* `except Exception` (resources.py lines 30 and 68, manager.py line 84).
Catches(exc) == exc = "Exception"

\* resources.py lines 26-33 and 59-68: start_subscription has returned to, or
\* raised into, autostart_subscriptions.  An exception that is caught is
\* logged, autostart_subscriptions returns and the flag is set; one that is
\* not caught reaches the reader.
ReaderReturns(c, raised) ==
    IF raised /\ ~Catches(CreateTaskError)
    THEN /\ readers' = [readers EXCEPT ![c] = "raised"]
         /\ UNCHANGED subscriptions_started
    ELSE /\ readers' = [readers EXCEPT ![c] = "done"]
         /\ subscriptions_started' = TRUE

Returned(c, raised) ==
    IF c = NoReader
    THEN UNCHANGED lazy
    ELSE /\ ReaderReturns(c, raised)
         /\ UNCHANGED <<auto_start_enabled, autostart_log_path,
                        autostart_runs>>

\* A start that waited for the lock gets it and runs lines 110-125.
StartLockedAs(created) ==
    /\ lock_holder.op = "start"
    /\ lock_holder.phase = "ready"
    /\ StartLockedOutcome(lock_holder.name, lock_holder.request,
                          connection_states, created)
    /\ lock_holder' = ReleasedHolder
    /\ lock_waiters' = ReleasedWaiters
    /\ Returned(lock_holder.caller, ~created)
    /\ UNCHANGED <<resource_data, reconnect_attempts,
                   max_reconnect_attempts, UNRAID_API_URL, now, hist>>

StartLocked == StartLockedAs(TRUE)

(***************************************************************************)
(* stop_subscription                                                       *)
(***************************************************************************)
\* Lines 139-140, after the awaited task has ended.
StopDeregister(n) ==
    /\ active_subscriptions' = [active_subscriptions EXCEPT ![n] = NoTask]
    /\ connection_states' = [connection_states EXCEPT ![n] = "stopped"]
    /\ stop_returned' = [stop_returned EXCEPT ![n] = TRUE]
    /\ lock_holder' = ReleasedHolder
    /\ lock_waiters' = ReleasedWaiters

\* Lines 132-143, run while holding the lock.  Awaiting a task that has already
\* ended does not suspend, so the deregistration follows in the same run.
StopLockedBody(n) ==
    IF active_subscriptions[n] # NoTask
    THEN IF tasks[active_subscriptions[n]].pc = "done"
         THEN /\ StopDeregister(n)
              /\ UNCHANGED tasks
         ELSE /\ tasks' = [tasks EXCEPT ![active_subscriptions[n]].cancel = TRUE]
              /\ lock_holder' = [op |-> "stop", name |-> n,
                                 phase |-> "await_task", request |-> NoRequest,
                                 caller |-> NoReader]
              /\ UNCHANGED <<lock_waiters, active_subscriptions,
                             connection_states, stop_returned>>
    ELSE /\ lock_holder' = ReleasedHolder
         /\ lock_waiters' = ReleasedWaiters
         /\ UNCHANGED <<tasks, active_subscriptions, connection_states,
                        stop_returned>>

stop_subscription(n) ==
    /\ IF lock_holder = NoLock
       THEN StopLockedBody(n)
       ELSE /\ Len(lock_waiters) < MaxWaiters
            /\ lock_waiters' = Append(lock_waiters,
                                       [op |-> "stop", name |-> n,
                                        request |-> NoRequest,
                                        caller |-> NoReader])
            /\ UNCHANGED <<lock_holder, tasks, active_subscriptions,
                           connection_states, stop_returned>>
    /\ UNCHANGED <<resource_data, reconnect_attempts, last_error,
                   max_reconnect_attempts, UNRAID_API_URL, lazy, now,
                   last_present, last_truthy, failed_connects>>

\* A stop that waited for the lock gets it.
StopLocked ==
    /\ lock_holder.op = "stop"
    /\ lock_holder.phase = "ready"
    /\ StopLockedBody(lock_holder.name)
    /\ UNCHANGED <<resource_data, reconnect_attempts, last_error,
                   max_reconnect_attempts, UNRAID_API_URL, lazy, now,
                   last_present, last_truthy, failed_connects>>

\* `await task` of line 136 returns: the cancelled task has ended.
StopFinish ==
    /\ lock_holder.op = "stop"
    /\ lock_holder.phase = "await_task"
    /\ tasks[active_subscriptions[lock_holder.name]].pc = "done"
    /\ StopDeregister(lock_holder.name)
    /\ UNCHANGED <<tasks, resource_data, reconnect_attempts, last_error,
                   max_reconnect_attempts, UNRAID_API_URL, lazy, now,
                   last_present, last_truthy, failed_connects>>

(***************************************************************************)
(* _subscription_loop                                                      *)
(***************************************************************************)
\* The backoff without its ceiling.
NextRetryDelay_unbounded(d) == (d * 3) \div 2

\* Line 438.
NextRetryDelay(d) == Min((d * 3) \div 2, max_retry_delay * Scale)

\* The except clauses with another word for a closed connection.
HandlerState_closed(exc) ==
    CASE exc = "timeout" -> "timeout"
      [] exc = "closed" -> "closed"
      [] exc = "invalid_uri" -> "invalid_uri"
      [] OTHER -> "error"

\* The except clauses without the one for InvalidURI.
HandlerState_generic(exc) ==
    CASE exc = "timeout" -> "timeout"
      [] exc = "closed" -> "disconnected"
      [] OTHER -> "error"

\* The connection states and error texts the except clauses of lines 412-435
\* write, by exception class.
HandlerState(exc) ==
    CASE exc = "timeout" -> "timeout"
      [] exc = "closed" -> "disconnected"
      [] exc = "invalid_uri" -> "invalid_uri"
      [] OTHER -> "error"

\* Except clauses that record no error.
HandlerError_none(exc) == None

HandlerError(exc) ==
    CASE exc = "timeout" -> "Connection or authentication timeout"
      [] exc = "closed" -> "WebSocket connection closed"
      [] exc = "invalid_uri" -> "Invalid WebSocket URI"
      [] OTHER -> "Unexpected error"

TransportFaults == {"timeout", "closed", "error"}

\* history kept in the task: the attempts in a row that ended in a transport
\* fault with none of them authenticated.
FaultsAfter(task, exc) ==
    IF exc \in TransportFaults /\ ~task.authed
    THEN Min(task.faults + 1, max_reconnect_attempts)
    ELSE 0

\* The end of one pass of the while loop, lines 412-443, for a pass that left
\* the try block with exception exc ("none": it fell out of the async with).
\* invalid_uri breaks out of the loop; every other pass computes the backoff,
\* writes "reconnecting" and sleeps.
EndOfPass(t, n, delay, exc) ==
    /\ last_error' = IF exc = "none" THEN last_error
                     ELSE [last_error EXCEPT ![n] = HandlerError(exc)]
    /\ IF exc = "invalid_uri"
       THEN /\ connection_states' =
                   [connection_states EXCEPT ![n] = HandlerState(exc)]
            /\ tasks' = [tasks EXCEPT ![t] = Finished(n)]
       ELSE /\ connection_states' =
                   [(IF exc = "none" THEN connection_states
                     ELSE [connection_states EXCEPT ![n] = HandlerState(exc)])
                    EXCEPT ![n] = "reconnecting"]
            /\ tasks' = [tasks EXCEPT ![t] =
                   [FreshTask EXCEPT !.name = n, !.pc = "sleeping",
                                     !.retry_delay = NextRetryDelay(delay),
                                     !.k = tasks[t].k + 1,
                                     !.faults = FaultsAfter(tasks[t], exc),
                                     !.authed = tasks[t].authed,
                                     !.request = tasks[t].request]]

Runs(t) == tasks[t].pc \notin {"none", "done"} /\ ~tasks[t].cancel

\* The test of line 160 with >= for >.
Exceeded_early(attempt) == attempt >= max_reconnect_attempts

\* Line 160.
Exceeded(attempt) == attempt > max_reconnect_attempts

\* The task is scheduled for the first time, or asyncio.sleep returns: lines
\* 149-193, up to the await of websockets.connect.
LoopIterate(t) ==
    LET n == tasks[t].name
        delay == IF tasks[t].pc = "new" THEN InitialRetryDelay * Scale
                 ELSE tasks[t].retry_delay
        attempt == reconnect_attempts[n] + 1
    IN  /\ Runs(t)
        /\ tasks[t].pc \in {"new", "sleeping"}
        /\ reconnect_attempts' = [reconnect_attempts EXCEPT ![n] = attempt]
        /\ IF Exceeded(attempt)
           THEN /\ connection_states' =
                       [connection_states EXCEPT ![n] = "max_retries_exceeded"]
                /\ tasks' = [tasks EXCEPT ![t] = Finished(n)]
                /\ UNCHANGED last_error
           ELSE IF ~api_url_configured
           THEN EndOfPass(t, n, delay, "error")
           ELSE /\ tasks' = [tasks EXCEPT ![t].pc = "connecting",
                                          ![t].retry_delay = delay,
                                          ![t].authed = FALSE,
                                          ![t].ws_url = ws_url(UNRAID_API_URL)]
                /\ UNCHANGED <<connection_states, last_error>>
        /\ failed_connects' =
              IF ~Exceeded(attempt) /\ ~api_url_configured
              THEN [failed_connects EXCEPT ![n] = failed_connects[n] + 1]
              ELSE failed_connects
        /\ UNCHANGED <<active_subscriptions, resource_data,
                       max_reconnect_attempts, UNRAID_API_URL, lazy, lock_holder,
                       lock_waiters, now, stop_returned, last_present,
                       last_truthy>>

ConnectFailures == {"timeout", "invalid_uri", "error"}

\* A connection that leaves the delay as it is.
DelayOnConnect_kept(d) == d

\* Line 209.
DelayOnConnect(d) == InitialRetryDelay * Scale

\* websockets.connect returns or raises: lines 193-238.  On success the state
\* is "connected", the attempt counter and the delay are reset, and
\* connection_init is sent.
Connect(t, outcome) ==
    LET n == tasks[t].name
    IN  /\ Runs(t)
        /\ tasks[t].pc = "connecting"
        /\ IF outcome \in SelectedProtocols
           THEN /\ connection_states' =
                       [connection_states EXCEPT ![n] = "connected"]
                /\ reconnect_attempts' = [reconnect_attempts EXCEPT ![n] = 0]
                /\ tasks' = [tasks EXCEPT ![t].pc = "wait_ack",
                                          ![t].proto = outcome,
                                          ![t].retry_delay =
                                              DelayOnConnect(tasks[t].retry_delay),
                                          ![t].k = 0]
                /\ failed_connects' = [failed_connects EXCEPT ![n] = 0]
                /\ UNCHANGED last_error
           ELSE /\ outcome \in ConnectFailures
                /\ EndOfPass(t, n, tasks[t].retry_delay, outcome)
                /\ failed_connects' =
                       [failed_connects EXCEPT ![n] = failed_connects[n] + 1]
                /\ UNCHANGED reconnect_attempts
        /\ UNCHANGED <<active_subscriptions, resource_data,
                       max_reconnect_attempts, UNRAID_API_URL, lazy, lock_holder,
                       lock_waiters, now, stop_returned, last_present,
                       last_truthy>>

AckOutcomes == {"connection_ack", "connection_error", "other", "bad_json",
                "not_object", "timeout", "closed", "error"}

\* How an init response leaves lines 242-282: "continue", "break" out of the
\* while loop, or the exception raised.
AckExit(resp) ==
    CASE resp \in {"connection_ack", "other"} -> "continue"
      [] resp \in {"connection_error", "bad_json"} -> "break"
      [] resp = "not_object" -> "error"
      [] OTHER -> resp

\* The answer to connection_init arrives, or the wait for it fails: lines
\* 238-302, up to the await that sends the subscribe message.
Ack(t, resp) ==
    LET n == tasks[t].name
    IN  /\ Runs(t)
        /\ tasks[t].pc = "wait_ack"
        /\ connection_states' =
              CASE resp = "connection_ack" ->
                      [connection_states EXCEPT ![n] = "authenticated"]
                [] resp = "connection_error" ->
                      [connection_states EXCEPT ![n] = "auth_failed"]
                [] OTHER -> connection_states
        /\ last_error' =
              CASE resp = "connection_error" ->
                      [last_error EXCEPT ![n] = "Authentication error"]
                [] resp = "bad_json" ->
                      [last_error EXCEPT ![n] = "Invalid JSON in init response"]
                [] OTHER -> last_error
        /\ tasks' =
              IF AckExit(resp) = "continue"
              THEN [tasks EXCEPT ![t].pc = "send_sub",
                                 ![t].authed = (resp = "connection_ack")]
              ELSE [tasks EXCEPT ![t].pc = "closing", ![t].exit = AckExit(resp)]
        /\ UNCHANGED <<active_subscriptions, resource_data, reconnect_attempts,
                       max_reconnect_attempts, UNRAID_API_URL, lazy, lock_holder,
                       lock_waiters, now, hist>>

\* The subscribe message of the graphql-ws dialect for every subprotocol.
start_type_legacy(proto) == "start"

\* Lines 290-292.
start_type(proto) ==
    IF proto = "graphql-transport-ws" THEN "subscribe" ELSE "start"

\* Lines 293-297.
subscription_message(n, proto, q) ==
    [id |-> n, type |-> start_type(proto),
     payload |-> [query |-> q.query, variables |-> q.variables]]

\* websocket.send of the subscribe message returns or raises: lines 302-311.
SendSubscribe(t, ok) ==
    LET n == tasks[t].name
    IN  /\ Runs(t)
        /\ tasks[t].pc = "send_sub"
        /\ IF ok
           THEN /\ connection_states' =
                       [connection_states EXCEPT ![n] = "subscribed"]
                /\ tasks' = [tasks EXCEPT
                       ![t].pc = "receiving",
                       ![t].sent = subscription_message(n, tasks[t].proto,
                                                        tasks[t].request)]
           ELSE /\ tasks' = [tasks EXCEPT ![t].pc = "closing",
                                          ![t].exit = "closed"]
                /\ UNCHANGED connection_states
        /\ UNCHANGED <<active_subscriptions, resource_data, reconnect_attempts,
                       last_error, max_reconnect_attempts, UNRAID_API_URL, lazy,
                       lock_holder, lock_waiters, now, hist>>

(***************************************************************************)
(* The receive loop, lines 311-410.                                        *)
(***************************************************************************)
\* payload.get("data"): the key is absent, or holds null, an empty value
\* ({}, [], "", 0, false), or one of two non-empty values.
DataValues == {"absent", "null", "empty", "d1", "d2"}
Truthy(v) == v \in {"d1", "d2"}
Present(v) == v \in {"empty", "d1", "d2"}

\* A message: its "type", its "id", payload.data and whether payload.errors is
\* non-empty.  Types "bad_json" and "not_object" stand for a frame that is not
\* JSON and for JSON that is not an object.
DataMessages ==
    [type : {"next", "data"}, id : Names, data : DataValues, errors : BOOLEAN]
ControlMessages ==
    [type : {"ping", "pong", "ka", "error", "complete", "unknown", "bad_json",
             "not_object"},
     id : {"none"}, data : {"absent"}, errors : {FALSE}]
Messages == DataMessages \union ControlMessages

\* The message of a type that has neither id nor payload.
Control(type) ==
    [type |-> type, id |-> "none", data |-> "absent", errors |-> FALSE]

\* Lines 322-324.
expected_data_type(proto) ==
    IF proto = "graphql-transport-ws" THEN "next" ELSE "data"

\* Lines 326-329.
IsDataFor(m, n, proto) == m.type = expected_data_type(proto) /\ m.id = n

\* A cache that takes whatever the matching message carries.
StoresData_always(m) == TRUE

\* Line 332.
StoresData(m) == Truthy(m.data)

\* An entry that keeps the data it holds and takes the new time.
StoredEntry_kept(old, m, time) ==
    [data |-> IF old = NoData THEN m.data ELSE old.data, last_updated |-> time]

\* Lines 336-340.
StoredEntry(old, m, time) == [data |-> m.data, last_updated |-> time]

\* A pong for the keepalive messages too.
RepliesPong_keepalive(m) == m.type \in {"ping", "ka"}

\* Line 356.
RepliesPong(m) == m.type = "ping"

\* A receive loop that an error message ends too.
EndsSession_error(m) == m.type \in {"complete", "error"}

\* Lines 372-377: the message whose branch leaves the async for.
EndsSession(m) == m.type = "complete"

\* A break that leaves the while loop of line 152.
CompleteExit_break == "break"

\* Line 377: the break leaves the async for of line 311, and the pass goes on
\* after the async with.
CompleteExit == "none"

\* One message of the stream is processed: lines 311-410.
Receive(t, m) ==
    LET n == tasks[t].name
        isdata == IsDataFor(m, n, tasks[t].proto)
        stores == isdata /\ StoresData(m)
    IN  /\ Runs(t)
        /\ tasks[t].pc = "receiving"
        /\ stores => now < MaxClock
        /\ now' = IF stores THEN now + 1 ELSE now
        /\ resource_data' =
              IF stores
              THEN [resource_data EXCEPT ![n] = StoredEntry(resource_data[n], m, now')]
              ELSE resource_data
        /\ last_error' =
              CASE isdata /\ ~StoresData(m) /\ m.errors ->
                      [last_error EXCEPT ![n] = "GraphQL errors"]
                [] ~isdata /\ m.type = "error" ->
                      [last_error EXCEPT ![n] = "Subscription error"]
                [] OTHER -> last_error
        /\ connection_states' =
              CASE ~isdata /\ m.type = "error" ->
                      [connection_states EXCEPT ![n] = "error"]
                [] ~isdata /\ m.type = "complete" ->
                      [connection_states EXCEPT ![n] = "completed"]
                [] OTHER -> connection_states
        /\ tasks' =
              CASE ~isdata /\ RepliesPong(m) ->
                      [tasks EXCEPT ![t].pc = "send_pong"]
                [] ~isdata /\ EndsSession(m) ->
                      [tasks EXCEPT ![t].pc = "closing",
                                    ![t].exit = CompleteExit]
                [] OTHER -> tasks
        /\ last_present' =
              IF m.type = expected_data_type(tasks[t].proto) /\ m.id = n
                 /\ m.data \in {"empty", "d1", "d2"}
              THEN [last_present EXCEPT ![n] = m.data]
              ELSE last_present
        /\ last_truthy' =
              IF m.type = expected_data_type(tasks[t].proto) /\ m.id = n
                 /\ m.data \in {"d1", "d2"}
              THEN [last_truthy EXCEPT ![n] = [data |-> m.data, last_updated |-> now + 1]]
              ELSE last_truthy
        /\ UNCHANGED <<active_subscriptions, reconnect_attempts,
                       max_reconnect_attempts, UNRAID_API_URL, lazy, lock_holder,
                       lock_waiters, stop_returned, failed_connects>>

\* The stream ends: the async for of line 311 stops when the server closed the
\* connection normally (clean = TRUE) and raises ConnectionClosed otherwise.
StreamEnds(t, clean) ==
    /\ Runs(t)
    /\ tasks[t].pc = "receiving"
    /\ tasks' = [tasks EXCEPT ![t].pc = "closing",
                              ![t].exit = IF clean THEN "none" ELSE "closed"]
    /\ UNCHANGED <<mgr, max_reconnect_attempts, UNRAID_API_URL, lazy,
                   lock_holder, lock_waiters, now, hist>>

\* websocket.send of the pong returns or raises (line 360); the except clause
\* of line 399 catches what it raises, and the loop goes on.
SendPong(t, ok) ==
    /\ Runs(t)
    /\ tasks[t].pc = "send_pong"
    /\ tasks' = [tasks EXCEPT ![t].pc = "receiving"]
    /\ UNCHANGED <<mgr, max_reconnect_attempts, UNRAID_API_URL, lazy,
                   lock_holder, lock_waiters, now, hist>>

\* The async with of line 193 has closed the connection: the task goes on with
\* what made it leave the block.
Closed(t) ==
    LET n == tasks[t].name
    IN  /\ Runs(t)
        /\ tasks[t].pc = "closing"
        /\ IF tasks[t].exit \in {"break", "cancelled"}
           THEN /\ tasks' = [tasks EXCEPT ![t] = Finished(n)]
                /\ UNCHANGED <<connection_states, last_error>>
           ELSE EndOfPass(t, n, tasks[t].retry_delay, tasks[t].exit)
        /\ UNCHANGED <<active_subscriptions, resource_data, reconnect_attempts,
                       max_reconnect_attempts, UNRAID_API_URL, lazy, lock_holder,
                       lock_waiters, now, hist>>

HasConnection(t) ==
    tasks[t].pc \in {"wait_ack", "send_sub", "receiving", "send_pong", "closing"}

\* task.cancel() takes effect: CancelledError is raised at the await the task
\* is suspended in.  The except clauses of lines 399 and 431 are tried for an
\* await inside their try blocks; they do not catch it, and an open connection
\* is closed by the async with on the way out.
Cancelled(t) ==
    /\ tasks[t].cancel
    /\ tasks[t].pc \notin {"none", "done"}
    /\ tasks' =
          CASE Catches(CancelledError) /\ tasks[t].pc = "send_pong" ->
                  [tasks EXCEPT ![t].pc = "receiving", ![t].cancel = FALSE]
            [] Catches(CancelledError)
               /\ tasks[t].pc \in {"connecting", "wait_ack", "send_sub",
                                    "receiving"} ->
                  [tasks EXCEPT ![t].pc = "closing", ![t].exit = "error",
                                ![t].cancel = FALSE]
            [] tasks[t].pc \in {"wait_ack", "send_sub", "receiving",
                                "send_pong"} ->
                  [tasks EXCEPT ![t].pc = "closing", ![t].exit = "cancelled",
                                ![t].cancel = FALSE]
            [] OTHER -> [tasks EXCEPT ![t] = Finished(tasks[t].name)]
    /\ UNCHANGED <<mgr, max_reconnect_attempts, UNRAID_API_URL, lazy,
                   lock_holder, lock_waiters, now, hist>>

(***************************************************************************)
(* Spec: any interleaving of calls of start and stop, for two names, with  *)
(* the steps of the tasks.  The server accepts or refuses the connection,  *)
(* acknowledges or rejects connection_init, and closes the stream.         *)
(***************************************************************************)
SpecConnects == {"graphql-transport-ws", "error"}
SpecAcks == {"connection_ack", "connection_error"}
SpecRequests == {[query |-> "q1", variables |-> "v1"]}

Next ==
    \/ \E n \in Names, q \in SpecRequests : start_subscription(n, q)
    \/ \E n \in Names : stop_subscription(n)
    \/ StartLocked
    \/ StopLocked
    \/ StopFinish
    \/ \E t \in TaskIds : LoopIterate(t)
    \/ \E t \in TaskIds, o \in SpecConnects : Connect(t, o)
    \/ \E t \in TaskIds, r \in SpecAcks : Ack(t, r)
    \/ \E t \in TaskIds : SendSubscribe(t, TRUE)
    \/ \E t \in TaskIds : StreamEnds(t, FALSE)
    \/ \E t \in TaskIds : Closed(t)
    \/ \E t \in TaskIds : Cancelled(t)
    \/ \E n \in Names : ReadData(n)
    \/ ReadStatus

Spec == Init /\ [][Next]_vars

(***************************************************************************)
(* SpecLoop: the subscription of the registry, logFileSubscription, is     *)
(* started, stopped and started again by one caller at a time, and its     *)
(* loop meets every outcome of the connection, of the handshake and of the *)
(* stream.  UNRAID_MAX_RECONNECT_ATTEMPTS is LoopMaxAttempts.              *)
(***************************************************************************)
InitLoop ==
    /\ InitEnv
    /\ InitManager
    /\ max_reconnect_attempts = LoopMaxAttempts
    /\ UNRAID_API_URL \in {<<>>, DefaultUrl}

NextLoop ==
    \/ \E q \in SpecRequests : start_subscription(LogName, q)
    \/ lock_holder = NoLock /\ stop_subscription(LogName)
    \/ StopFinish
    \/ \E t \in TaskIds : LoopIterate(t)
    \/ \E t \in TaskIds, o \in Protocols \union ConnectFailures : Connect(t, o)
    \/ \E t \in TaskIds, r \in AckOutcomes : Ack(t, r)
    \/ \E t \in TaskIds, ok \in BOOLEAN : SendSubscribe(t, ok)
    \/ \E t \in TaskIds, m \in Messages : Receive(t, m)
    \/ \E t \in TaskIds, c \in BOOLEAN : StreamEnds(t, c)
    \/ \E t \in TaskIds, ok \in BOOLEAN : SendPong(t, ok)
    \/ \E t \in TaskIds : Closed(t)
    \/ \E t \in TaskIds : Cancelled(t)
    \/ \E n \in Names : ReadData(n)
    \/ ReadStatus

SpecLoop == InitLoop /\ [][NextLoop]_vars

(***************************************************************************)
(* SpecSession: the subscription is started with any of the requests, the  *)
(* server selects any subprotocol or none, and the session runs with every *)
(* message of the stream; attempts that fail to connect are left out.      *)
(***************************************************************************)
InitSession ==
    /\ InitEnv
    /\ InitManager
    /\ max_reconnect_attempts = MaxAttempts
    /\ UNRAID_API_URL = DefaultUrl

NextSession ==
    \/ \E q \in Requests : start_subscription(LogName, q)
    \/ lock_holder = NoLock /\ stop_subscription(LogName)
    \/ StopFinish
    \/ \E t \in TaskIds : LoopIterate(t)
    \/ \E t \in TaskIds, o \in SelectedProtocols : Connect(t, o)
    \/ \E t \in TaskIds, r \in {"connection_ack", "other"} : Ack(t, r)
    \/ \E t \in TaskIds, ok \in BOOLEAN : SendSubscribe(t, ok)
    \/ \E t \in TaskIds, m \in Messages : Receive(t, m)
    \/ \E t \in TaskIds, c \in BOOLEAN : StreamEnds(t, c)
    \/ \E t \in TaskIds : SendPong(t, TRUE)
    \/ \E t \in TaskIds : Closed(t)
    \/ \E t \in TaskIds : Cancelled(t)

SpecSession == InitSession /\ [][NextSession]_vars

(***************************************************************************)
(* SpecUrl: the subscription is started with UNRAID_API_URL any URL of up  *)
(* to MaxUrlLen pieces, and its loop derives the WebSocket URL and         *)
(* connects, or is refused the URL.                                        *)
(***************************************************************************)
InitUrl ==
    /\ InitEnv
    /\ InitManager
    /\ max_reconnect_attempts = MaxAttempts
    /\ UNRAID_API_URL \in Urls

NextUrl ==
    \/ \E q \in SpecRequests : start_subscription(LogName, q)
    \/ \E t \in TaskIds : LoopIterate(t)
    \/ \E t \in TaskIds, o \in {"graphql-transport-ws", "invalid_uri"} :
          Connect(t, o)

SpecUrl == InitUrl /\ [][NextUrl]_vars

(***************************************************************************)
(* The lazy start (src/unraid_mcp/subscriptions/resources.py): every       *)
(* resource read and the diagnostics call ensure_subscriptions_started     *)
(* first.                                                                  *)
(***************************************************************************)
\* manager.py lines 42-58: the registry's one entry has auto_start False.
config_auto_start(n) == FALSE

\* manager.py lines 66-91: the names auto_start_all_subscriptions starts.
auto_start_all_subscriptions ==
    IF ~auto_start_enabled THEN {}
    ELSE {n \in subscription_configs : config_auto_start(n)}

\* How the process finds the log path: the variable is set to a path ("set")
\* or to the empty string ("empty"); or it is not set and /var/log/syslog
\* exists ("default") or does not ("none").
LogPaths == {"set", "empty", "default", "none"}

\* resources.py lines 46-56: log_path is truthy.
log_path_found == autostart_log_path \in {"set", "default"}

\* resources.py lines 59-65: the request of the log subscription, the query of
\* the registry with the variables {"path": log_path}.
LogFileRequest == [query |-> "logFileSubscription", variables |-> "path"]

\* resources.py lines 23-28: the flag while autostart_subscriptions is
\* suspended (line 28 has not run yet).
FlagWhileWaiting == subscriptions_started

\* resources.py lines 20-70: reader r calls ensure_subscriptions_started, which
\* runs up to the one place where it can be suspended, the lock of
\* start_subscription, or to its end.  With the registry as it is
\* auto_start_all_subscriptions starts nothing, and the sequence is the start
\* of the log subscription.
ensure_subscriptions_started(r, created) ==
    /\ readers[r] # "waiting"
    /\ IF subscriptions_started
       THEN /\ readers' = [readers EXCEPT ![r] = "done"]
            /\ UNCHANGED <<mvars, subscriptions_started, autostart_runs>>
       ELSE /\ autostart_runs' = autostart_runs + 1
            /\ auto_start_all_subscriptions = {}
            /\ IF log_path_found
               THEN /\ StartCall(LogName, LogFileRequest, r, created)
                    /\ IF StartWaits(LogName)
                       THEN /\ readers' = [readers EXCEPT ![r] = "waiting"]
                            /\ subscriptions_started' = FlagWhileWaiting
                       ELSE ReaderReturns(r, StartRaises(LogName, created))
               ELSE /\ ReaderReturns(r, FALSE)
                    /\ UNCHANGED mvars
    /\ UNCHANGED <<auto_start_enabled, autostart_log_path>>

(***************************************************************************)
(* SpecLazy: readers trigger the lazy start while another subscription is  *)
(* started and stopped by direct calls; the process runs with the          *)
(* auto-start flag on or off and with any way of finding the log path.     *)
(* Connections stay pending.                                               *)
(***************************************************************************)
OtherName == "other"

InitLazy ==
    /\ InitManager
    /\ max_reconnect_attempts = MaxAttempts
    /\ UNRAID_API_URL = DefaultUrl
    /\ auto_start_enabled \in BOOLEAN
    /\ autostart_log_path \in LogPaths

NextLazy ==
    \/ \E r \in ReaderIds, c \in BOOLEAN : ensure_subscriptions_started(r, c)
    \/ \E q \in SpecRequests : start_subscription(OtherName, q)
    \/ stop_subscription(OtherName)
    \/ \E c \in BOOLEAN : StartLockedAs(c)
    \/ StopLocked
    \/ StopFinish
    \/ \E t \in TaskIds : LoopIterate(t)
    \/ \E t \in TaskIds : Cancelled(t)

SpecLazy == InitLazy /\ [][NextLazy]_vars

(***************************************************************************)
(* SpecFair: start and stop are called in any order while the loop         *)
(* connects, subscribes, is pinged and has its stream completed or closed. *)
(* The event loop runs every coroutine that is ready: a task that was      *)
(* cancelled, that closes its connection or whose sleep is over, and a     *)
(* start or stop that got the lock or whose awaited task has ended.  What  *)
(* the server does, and when, is left open.                                *)
(***************************************************************************)
FairMessages == {Control("complete"), Control("ping")}

InitFair ==
    /\ InitEnv
    /\ InitManager
    /\ max_reconnect_attempts = MaxAttempts
    /\ UNRAID_API_URL = DefaultUrl

NextFair ==
    \/ \E q \in SpecRequests : start_subscription(LogName, q)
    \/ stop_subscription(LogName)
    \/ StartLocked
    \/ StopLocked
    \/ StopFinish
    \/ \E t \in TaskIds : LoopIterate(t)
    \/ \E t \in TaskIds, o \in SpecConnects : Connect(t, o)
    \/ \E t \in TaskIds : Ack(t, "connection_ack")
    \/ \E t \in TaskIds : SendSubscribe(t, TRUE)
    \/ \E t \in TaskIds, m \in FairMessages : Receive(t, m)
    \/ \E t \in TaskIds : SendPong(t, TRUE)
    \/ \E t \in TaskIds : StreamEnds(t, FALSE)
    \/ \E t \in TaskIds : Closed(t)
    \/ \E t \in TaskIds : Cancelled(t)

Fairness ==
    /\ WF_vars(StartLocked)
    /\ WF_vars(StopLocked)
    /\ WF_vars(StopFinish)
    /\ \A t \in TaskIds : WF_vars(LoopIterate(t))
    /\ \A t \in TaskIds : WF_vars(Closed(t))
    /\ \A t \in TaskIds : WF_vars(Cancelled(t))

SpecFair == InitFair /\ [][NextFair]_vars /\ Fairness

(***************************************************************************)
(* The claims.                                                             *)
(***************************************************************************)
Live(t) == tasks[t].pc \notin {"none", "done"}

\* C1: in every reachable state every loop task that exists is the one
\* registered in the active set for its name, so that no name has two tasks.
\* Violated: two start calls for a name that both wait for the lock (held by a
\* stop that awaits its task) have both passed the check of line 99.
C1_OneTaskPerName ==
    \A t \in TaskIds : Live(t) => active_subscriptions[tasks[t].name] = t

\* C2: once stop(name) has returned for a name that had an active task, and
\* until the next start(name), the name is not in the active set, its state is
\* stopped and no loop task of that name is running.
C2_StopLeavesNothingRunning ==
    \A n \in Names :
        stop_returned[n] =>
            /\ active_subscriptions[n] = NoTask
            /\ connection_states[n] = "stopped"
            /\ \A t \in TaskIds : tasks[t].name = n => ~Live(t)

\* C3: start(name) for a name that is registered in the active set, and
\* stop(name) for a name that is not (the check under the lock, at the call or
\* after the wait for the lock), change nothing of the manager's state and
\* nothing of any task.
C3_NoOps ==
    [][\A n \in Names :
          /\ (active_subscriptions[n] # NoTask
              /\ \E q \in Requests : start_subscription(n, q))
                => UNCHANGED <<mgr, tasks>>
          /\ (active_subscriptions[n] = NoTask
              /\ \/ lock_holder = NoLock /\ stop_subscription(n)
                 \/ lock_holder.name = n /\ StopLocked)
                => UNCHANGED <<mgr, tasks>>]_vars

\* C3: a stop for a name without a task has waited for the lock and now owns
\* it, while the other name has a task a start would find.
C3_Witness ==
    /\ lock_holder.op = "stop"
    /\ lock_holder.phase = "ready"
    /\ active_subscriptions[lock_holder.name] = NoTask
    /\ \E n \in Names : active_subscriptions[n] # NoTask /\ Live(active_subscriptions[n])

\* C4, as stated: after a data message for a name whose payload.data is a
\* value (null and a missing key aside), get_resource_data returns that value.
\* Violated by a payload.data that is empty ({}, [], "", 0, false): line 332
\* tests its truth value and leaves the cache alone.
C4_LastPayloadCached ==
    \A n \in Names :
        last_present[n] # "none" => get_resource_data(n) = last_present[n]

\* C4: the cache entry of a name is exactly the payload.data of the last data
\* message for it whose payload.data was non-empty, together with the time of
\* that message, nothing of an earlier payload kept; get_resource_data returns
\* that payload.data.
C4_LastNonEmptyPayloadCached ==
    \A n \in Names :
        /\ resource_data[n] = last_truthy[n]
        /\ last_truthy[n] # NoData => get_resource_data(n) = last_truthy[n].data

\* C4: a second non-empty payload has replaced the first, and an empty one
\* that followed has left it in place.
C4_Witness ==
    /\ last_truthy[LogName] = [data |-> "d2", last_updated |-> 2]
    /\ last_present[LogName] = "empty"
    /\ get_resource_data(LogName) = "d2"

\* C5: get_resource_data returns None as long as no data message with a
\* non-empty payload has been processed for the name, and no step at all (of
\* the loop, of start or of stop) makes it return None again once it has
\* returned a payload.
C5_AbsentThenKept ==
    /\ [](\A n \in Names :
            last_truthy[n] = NoData => get_resource_data(n) = None)
    /\ [][\A n \in Names :
            get_resource_data(n) # None => get_resource_data(n)' # None]_vars

\* C5: a payload is cached, and the loop has since failed and sleeps in its
\* backoff.
C5_Witness ==
    /\ get_resource_data(LogName) # None
    /\ connection_states[LogName] = "reconnecting"
    /\ last_error[LogName] # None
    /\ \E t \in TaskIds : tasks[t].name = LogName /\ tasks[t].pc = "sleeping"

\* C6: in every reachable state get_resource_data and get_subscription_status
\* can be called and return a value: get_resource_data the cached payload or
\* None, get_subscription_status one record for every configured subscription
\* that repeats the manager's state.  Neither waits for the lock; the two
\* calls are steps that leave every variable unchanged.
C6_ReadsNeverFail ==
    /\ \A n \in Names :
          /\ ENABLED ReadData(n)
          /\ get_resource_data(n) # Raised
          /\ get_resource_data(n) = None <=> resource_data[n] = NoData
    /\ ENABLED ReadStatus
    /\ \A n \in subscription_configs :
          /\ get_subscription_status[n].connection_state = connection_states[n]
          /\ get_subscription_status[n].last_error = last_error[n]
          /\ get_subscription_status[n].available = (get_resource_data(n) # None)

\* C6: a stop holds the lock and waits for its task, and the subscription is
\* in the permanent error state auth_failed.
C6_Witness ==
    /\ lock_holder.op = "stop"
    /\ lock_holder.phase = "await_task"
    /\ connection_states[LogName] = "auth_failed"
    /\ get_resource_data(LogName) # None

\* C7, as stated: after max_reconnect_attempts attempts in a row that each
\* ended in a transport fault, none of them authenticated, the loop makes no
\* further connection attempt.  Violated by attempts that fail after the
\* connection was established (a timeout waiting for connection_ack, a
\* connection closed before it): line 208 has reset the counter by then.
C7_NoAttemptAfterMaxFaults ==
    \A t \in TaskIds :
        tasks[t].faults >= max_reconnect_attempts => tasks[t].pc # "connecting"

OtherLoop(t) ==
    \E u \in TaskIds \ {t} : Live(u) /\ tasks[u].name = tasks[t].name

\* C7: the loop gives up exactly when max_reconnect_attempts attempts in a row
\* have failed to establish the connection: its next pass sets
\* max_retries_exceeded and ends the task without a connection attempt.  While
\* the state is max_retries_exceeded the registered task has ended, and the
\* state changes only by a stop or a start of the name (or by another loop of
\* the name, which C1 allows).
C7_MaxRetries ==
    /\ [][\A t \in TaskIds :
            (LoopIterate(t) /\ ~OtherLoop(t)) =>
                ((failed_connects[tasks[t].name] >= max_reconnect_attempts)
                 <=> (/\ connection_states'[tasks[t].name] = "max_retries_exceeded"
                      /\ tasks'[t].pc = "done"))]_vars
    /\ [][\A n \in Names :
            (/\ connection_states[n] = "max_retries_exceeded"
             /\ connection_states'[n] # "max_retries_exceeded") =>
                \/ connection_states'[n] \in {"stopped", "starting", "active"}
                \/ \E t \in TaskIds : Live(t) /\ tasks[t].name = n]_vars
    /\ [](\A n \in Names :
            (/\ connection_states[n] = "max_retries_exceeded"
             /\ \A t \in TaskIds : Live(t) /\ tasks[t].name = n
                                      => active_subscriptions[n] = t) =>
                /\ \A t \in TaskIds : tasks[t].name = n => ~Live(t)
                /\ n \in subscription_configs =>
                      get_subscription_status[n].connection_state
                         = "max_retries_exceeded")

\* C7: max_reconnect_attempts attempts in a row have failed to connect and
\* the loop has given up.
C7_Witness ==
    /\ connection_states[LogName] = "max_retries_exceeded"
    /\ failed_connects[LogName] = max_reconnect_attempts
    /\ reconnect_attempts[LogName] = max_reconnect_attempts + 1
    /\ active_subscriptions[LogName] # NoTask
    /\ tasks[active_subscriptions[LogName]].pc = "done"

RECURSIVE Pow(_, _)
Pow(b, e) == IF e = 0 THEN 1 ELSE b * Pow(b, e - 1)

\* min(InitialRetryDelay * 1.5^j, max_retry_delay), in 1/Scale seconds.
BackoffAfter(j) ==
    IF InitialRetryDelay * Pow(3, j) >= max_retry_delay * Pow(2, j)
    THEN max_retry_delay * Scale
    ELSE (InitialRetryDelay * Pow(3, j) * Scale) \div Pow(2, j)

\* C8, as stated: the sleep after the k-th failed attempt in a row, k = 0 for
\* the first, is min(5 * 1.5^k, 300) seconds.  tasks[t].k counts the passes
\* that have ended since the start or the last connection, so the sleeping
\* task is at index k - 1.  Violated by the first sleep: line 438 multiplies
\* the delay before line 443 sleeps, which makes it 7.5 s.
C8_SleepsCurrentDelay ==
    \A t \in TaskIds :
        tasks[t].pc = "sleeping" =>
            tasks[t].retry_delay = BackoffAfter(tasks[t].k - 1)

\* C8: the sleep after the k-th failed attempt in a row, k = 0 for the first
\* after the start or after a reset, is min(5 * 1.5^(k+1), 300) seconds, and no
\* sleep exceeds 300 s.
C8_SleepsNextDelay ==
    \A t \in TaskIds :
        tasks[t].pc = "sleeping" =>
            /\ tasks[t].k >= 1
            /\ tasks[t].retry_delay = BackoffAfter(tasks[t].k)
            /\ tasks[t].retry_delay <= max_retry_delay * Scale

\* C8: the loop sleeps for the ceiling, after attempts in a row enough to
\* reach it, and has slept for 7.5 s at the first of them.
C8_Witness ==
    \E t \in TaskIds :
        /\ tasks[t].pc = "sleeping"
        /\ tasks[t].k = 11
        /\ tasks[t].retry_delay = max_retry_delay * Scale
        /\ BackoffAfter(1) = 15 * (Scale \div 2)
        /\ BackoffAfter(10) < max_retry_delay * Scale

\* C9, as stated: after a session that was authenticated the loop sleeps for
\* the floor of the delay, 5 s.  Violated: the delay is at the floor during
\* the session, and line 438 multiplies it before the sleep.
C9_SleepsFloorAfterSession ==
    \A t \in TaskIds :
        (tasks[t].pc = "sleeping" /\ tasks[t].authed) =>
            tasks[t].retry_delay = InitialRetryDelay * Scale

\* C9: the step that establishes the connection sets the attempt counter to 0
\* and the delay to its floor, whatever they were; they are still so when
\* connection_ack arrives and for the rest of the session (the counter as
\* long as no other loop of the name runs); the sleep that follows the
\* session is 7.5 s, and the attempt after it is counted as attempt 1.
C9_ResetOnConnect ==
    /\ [][\A t \in TaskIds, o \in SelectedProtocols :
            Connect(t, o) =>
                /\ reconnect_attempts'[tasks[t].name] = 0
                /\ tasks'[t].retry_delay = InitialRetryDelay * Scale]_vars
    /\ [](\A t \in TaskIds :
            /\ HasConnection(t) =>
                  /\ tasks[t].retry_delay = InitialRetryDelay * Scale
                  /\ ~OtherLoop(t) => reconnect_attempts[tasks[t].name] = 0
            /\ (tasks[t].pc = "sleeping" /\ tasks[t].authed) =>
                  /\ tasks[t].retry_delay = NextRetryDelay(InitialRetryDelay * Scale)
                  /\ 2 * tasks[t].retry_delay = 15 * Scale
                  /\ ~OtherLoop(t) => reconnect_attempts[tasks[t].name] = 0)
    /\ [][\A t \in TaskIds :
            (LoopIterate(t) /\ tasks[t].authed /\ ~OtherLoop(t)) =>
                reconnect_attempts'[tasks[t].name] = 1]_vars

\* C9: an attempt has timed out, a later one was authenticated, its session
\* has ended without an error, and the loop sleeps.
C9_Witness ==
    \E t \in TaskIds :
        /\ tasks[t].pc = "sleeping"
        /\ tasks[t].authed
        /\ last_error[tasks[t].name] = "Connection or authentication timeout"
        /\ reconnect_attempts[tasks[t].name] = 0
        /\ 2 * tasks[t].retry_delay = 15 * Scale

\* C10: once connection_error has made the state auth_failed, the state
\* changes only by a stop or a start of the name.  Violated: a second loop of
\* the name, which the two waiting start calls of C1 leave running, goes on
\* connecting and writes the state.
C10_AuthFailedStays ==
    [][\A n \in Names :
          connection_states[n] = "auth_failed" =>
              connection_states'[n] \in {"auth_failed", "stopped", "starting",
                                         "active"}]_vars

\* C11: with UNRAID_API_URL not configured a started subscription never
\* sleeps in a backoff and never retries: its loop makes one pass at most.
\* Violated: the ValueError of line 170 is raised inside the try block and
\* caught by the except Exception clause of line 431, so the loop records
\* "error", sleeps and tries again until the attempt ceiling; start itself
\* has returned normally with the task registered.
C11_NoRetryWithoutUrl ==
    ~api_url_configured =>
        /\ \A t \in TaskIds : tasks[t].pc # "sleeping"
        /\ \A n \in Names : reconnect_attempts[n] <= 1

\* C12: an attempt whose answer to connection_init was not JSON ends like any
\* failed attempt: once its connection is closed the loop sleeps in its
\* backoff, to connect again.  Violated: the break of line 259 is not inside
\* a loop of its own, it leaves the while loop of line 152 and the task ends,
\* with the state left at "connected".
C12_BadJsonRetried ==
    [][\A t \in TaskIds :
          (/\ Closed(t)
           /\ tasks[t].exit = "break"
           /\ last_error[tasks[t].name] = "Invalid JSON in init response") =>
              tasks'[t].pc = "sleeping"]_vars

\* C13: when websockets.connect raises InvalidURI the state becomes
\* invalid_uri, last_error records it and the task ends in the same step,
\* with no sleep, whatever the attempt counter is; while the state is
\* invalid_uri and the name has no other loop, no loop of the name runs, so
\* no connection attempt follows.
C13_InvalidUriEndsLoop ==
    /\ [][\A t \in TaskIds :
            Connect(t, "invalid_uri") =>
                /\ connection_states'[tasks[t].name] = "invalid_uri"
                /\ last_error'[tasks[t].name] = "Invalid WebSocket URI"
                /\ tasks'[t].pc = "done"
                /\ UNCHANGED reconnect_attempts]_vars
    /\ [](\A n \in Names :
            (/\ connection_states[n] = "invalid_uri"
             /\ \A t \in TaskIds : Live(t) /\ tasks[t].name = n
                                      => active_subscriptions[n] = t) =>
                \A t \in TaskIds : tasks[t].name = n => ~Live(t))

\* C13: the URI was rejected at an attempt that followed failed ones, and the
\* loop has ended.
C13_Witness ==
    /\ connection_states[LogName] = "invalid_uri"
    /\ last_error[LogName] = "Invalid WebSocket URI"
    /\ reconnect_attempts[LogName] = 3
    /\ active_subscriptions[LogName] # NoTask
    /\ tasks[active_subscriptions[LogName]].pc = "done"

\* C14: in a session that has subscribed, the subscribe message sent has the
\* subscription name as its id and the query and variables the task was
\* started with, and its type is "subscribe" exactly when the subprotocol
\* selected at connect is graphql-transport-ws and "start" otherwise; a
\* message is then stored as data only if its type is "next" in the first
\* case and "data" in the second.
C14_OneDialectPerSession ==
    /\ [](\A t \in TaskIds :
            tasks[t].pc \in {"receiving", "send_pong"} =>
                /\ tasks[t].sent.id = tasks[t].name
                /\ tasks[t].sent.payload = tasks[t].request
                /\ tasks[t].request \in Requests
                /\ tasks[t].sent.type \in {"subscribe", "start"}
                /\ tasks[t].sent.type = "subscribe"
                      <=> tasks[t].proto = "graphql-transport-ws")
    /\ [][resource_data' # resource_data =>
            \A t \in TaskIds : \A m \in Messages :
                Receive(t, m) =>
                    /\ m.id = tasks[t].sent.id
                    /\ tasks[t].sent.type = "subscribe" => m.type = "next"
                    /\ tasks[t].sent.type = "start" => m.type = "data"]_vars

\* C14: a session of the transport dialect, started with the second query,
\* has subscribed and has just stored a message.
C14_Witness ==
    \E t \in TaskIds :
        /\ tasks[t].pc = "receiving"
        /\ tasks[t].proto = "graphql-transport-ws"
        /\ tasks[t].sent = [id |-> LogName, type |-> "subscribe",
                            payload |-> [query |-> "q2", variables |-> "v2"]]
        /\ resource_data[LogName] # NoData
        /\ resource_data[LogName].last_updated = now

RECURSIVE TrailingGraphql(_)
TrailingGraphql(s) ==
    IF endswith(s, <<"/", "graphql">>)
    THEN 1 + TrailingGraphql(SubSeq(s, 1, Len(s) - 2))
    ELSE 0

\* C15: the URL the loop connects to has wss:// for a leading https:// of
\* the base URL and ws:// for a leading http:// (for a base that has
\* something other than slashes after its scheme), and it ends with exactly
\* one /graphql segment (with as many as the base ends with, if the base
\* ends with several).  Violated by a base that ends with /graphql/: the test
\* of line 179 is made before the trailing slash is removed, so /graphql is
\* appended a second time.
C15_OneGraphqlSegment ==
    \A t \in TaskIds :
        tasks[t].pc = "connecting" =>
            /\ (/\ startswith(UNRAID_API_URL, <<"https:", "/", "/">>)
                /\ rstrip(UNRAID_API_URL) # <<"https:">>) =>
                  startswith(tasks[t].ws_url, <<"wss:", "/", "/">>)
            /\ (/\ startswith(UNRAID_API_URL, <<"http:", "/", "/">>)
                /\ rstrip(UNRAID_API_URL) # <<"http:">>) =>
                  startswith(tasks[t].ws_url, <<"ws:", "/", "/">>)
            /\ TrailingGraphql(tasks[t].ws_url) =
                  (IF TrailingGraphql(UNRAID_API_URL) > 1
                   THEN TrailingGraphql(UNRAID_API_URL) ELSE 1)

\* C16: processing a ping in the receive loop changes nothing but the task,
\* which goes to send one pong on its connection; until that send has
\* returned or raised (or the task is cancelled) the task processes no
\* further message.  Processing a ka or a pong changes nothing at all.
C16_PingPong ==
    /\ [][\A t \in TaskIds :
            tasks[t].pc = "receiving" =>
                /\ Receive(t, Control("ping")) =>
                      /\ tasks'[t] = [tasks[t] EXCEPT !.pc = "send_pong"]
                      /\ \A u \in TaskIds \ {t} : tasks'[u] = tasks[u]
                      /\ UNCHANGED <<mgr, now>>
                /\ (Receive(t, Control("ka")) \/ Receive(t, Control("pong")))
                      => UNCHANGED vars]_vars
    /\ [][\A t \in TaskIds :
            (tasks[t].pc = "send_pong" /\ tasks'[t] # tasks[t]) =>
                \/ \E ok \in BOOLEAN : SendPong(t, ok)
                \/ Cancelled(t)
                \/ lock_holder' # lock_holder /\ tasks'[t].cancel]_vars
    /\ [](\A t \in TaskIds :
            tasks[t].pc = "send_pong" =>
                /\ \A m \in Messages : ~ENABLED Receive(t, m)
                /\ ~tasks[t].cancel => ENABLED SendPong(t, TRUE))

\* C16: a ping has been received in a session of the graphql-ws dialect that
\* has cached data, and its pong is being sent.
C16_Witness ==
    \E t \in TaskIds :
        /\ tasks[t].pc = "send_pong"
        /\ tasks[t].proto = "graphql-ws"
        /\ resource_data[tasks[t].name] # NoData

\* The enumeration of the specification, and the values the code stores:
\* "active" and "failed" (lines 118 and 123) are stored and are not in the
\* enumeration, "connecting" is in the enumeration and is never stored.
SpecStates ==
    {"not_started", "starting", "connecting", "connected", "authenticated",
     "subscribed", "error", "auth_failed", "timeout", "disconnected",
     "reconnecting", "max_retries_exceeded", "invalid_uri", "completed",
     "stopped"}
StoredStates == (SpecStates \ {"connecting"}) \union {"active", "failed"}

\* C17, as stated: the connection state of every name is a value of the
\* enumeration of the specification.  Violated as soon as a subscription is
\* started: line 118 stores "active".
C17_StateInSpecEnumeration ==
    \A n \in Names : connection_states[n] \in SpecStates

\* C17: the connection state of every name, which get_subscription_status
\* reports as it is, is one value of the enumeration without "connecting"
\* and with "active" and "failed"; so is every value an except clause stores
\* before "reconnecting" replaces it.
C17_StateInStoredSet ==
    /\ \A n \in Names : connection_states[n] \in StoredStates
    /\ \A n \in subscription_configs :
          get_subscription_status[n].connection_state = connection_states[n]
    /\ \A exc \in TransportFaults \union ConnectFailures :
          HandlerState(exc) \in StoredStates
    /\ \A n \in Names : connection_states[n] # "connecting"

\* C17: a subscription that failed earlier has been started again and is in
\* the state "active".
C17_Witness ==
    /\ connection_states[LogName] = "active"
    /\ last_error[LogName] # None
    /\ get_subscription_status[LogName].connection_state = "active"

\* C18: the step in which an attempt ends with a timeout, with a closed
\* connection or with another exception leaves the connection state at
\* "timeout", "disconnected" or "error", for a reader to see during the sleep
\* that follows.  Violated: line 442 stores "reconnecting" in the same run of
\* the task as the except clause, with no await in between, so that the state
\* of the failure class is never there when another coroutine runs.
C18_FailureStateObservable ==
    [][\A t \in TaskIds :
          /\ \A exc \in {"timeout", "error"} :
                Connect(t, exc) =>
                    connection_states'[tasks[t].name] = HandlerState(exc)
          /\ (Closed(t) /\ tasks[t].exit \in TransportFaults) =>
                connection_states'[tasks[t].name] = HandlerState(tasks[t].exit)]_vars

\* C19: a name is in the active set only while its loop runs: with no stop in
\* progress, the task registered for a name has not ended.  Violated: nothing
\* removes a task that ended on its own (max_retries_exceeded, auth_failed,
\* invalid_uri, invalid JSON) from active_subscriptions, so the name stays
\* active and a start for it is refused by the test of line 99 until a stop.
C19_ActiveOnlyWhileRunning ==
    \A n \in list_active_subscriptions :
        lock_holder = NoLock => Live(active_subscriptions[n])

\* C20, as stated: the lock is never held while its holder waits for a task
\* to terminate.  Violated: stop_subscription awaits the cancelled task
\* (line 136) inside `async with self.subscription_lock` (line 131).
C20_LockNeverHeldAcrossWait ==
    lock_holder.phase # "await_task"

\* C20: a start never waits while it holds the lock, and the only wait made
\* with the lock held is the one of a stop for its cancelled task to
\* terminate (which includes the closing of the task's connection); the
\* lock is never held on behalf of a loop that is connecting, receiving or
\* sleeping and is not being cancelled.  With the lock free a stop of any
\* name runs at once, and nobody waits for the lock.
C20_LockHeldOnlyByStopAwaitingTask ==
    /\ lock_holder.op = "start" => lock_holder.phase = "ready"
    /\ lock_holder.phase = "await_task" =>
          /\ lock_holder.op = "stop"
          /\ active_subscriptions[lock_holder.name] # NoTask
          /\ \/ tasks[active_subscriptions[lock_holder.name]].cancel
             \/ tasks[active_subscriptions[lock_holder.name]].pc
                    \in {"closing", "done"}
    /\ lock_holder = NoLock =>
          /\ lock_waiters = <<>>
          /\ \A n \in Names : ENABLED stop_subscription(n)

\* C20: a stop holds the lock while the connection of its cancelled task is
\* being closed, and a call for the other name waits for the lock.
C20_Witness ==
    /\ lock_holder.op = "stop"
    /\ lock_holder.phase = "await_task"
    /\ tasks[active_subscriptions[lock_holder.name]].pc = "closing"
    /\ lock_waiters # <<>>
    /\ Head(lock_waiters).name # lock_holder.name

\* C21: the auto-start sequence runs at most once in the process, also when
\* several readers trigger the lazy start before the first run has finished,
\* and no run begins once the flag is set.
\* Violated: a reader's run is suspended at the lock of start_subscription
\* (held by a stop that awaits its task) with the flag still unset, and a
\* second reader runs the sequence again.
C21_AutostartRunsOnce == autostart_runs <= 1

C23_CacheChangesOnlyOnData ==
    [][\A n \in Names :
          resource_data'[n] # resource_data[n] =>
             \E t \in TaskIds, m \in DataMessages :
                /\ tasks[t].name = n
                /\ tasks[t].pc = "receiving"
                /\ m.type = expected_data_type(tasks[t].proto)
                /\ m.id = n
                /\ Present(m.data)
                /\ resource_data' =
                      [resource_data EXCEPT ![n] =
                          [data |-> m.data, last_updated |-> now']]
                /\ Receive(t, m)]_vars

\* C23: the cache holds a payload and a later matching message with only
\* errors has been processed: the entry is still that of the last payload.
C23_Witness ==
    /\ resource_data[LogName] # NoData
    /\ resource_data[LogName] = last_truthy[LogName]
    /\ last_error[LogName] = "GraphQL errors"
    /\ \E t \in TaskIds : tasks[t].name = LogName /\ tasks[t].pc = "receiving"

\* A matching data message whose payload has errors and no data.
ErrorsOnly(t) ==
    [type |-> expected_data_type(tasks[t].proto), id |-> tasks[t].name,
     data |-> "absent", errors |-> TRUE]

\* C24: a task leaves the receive loop only for a complete message, for the end
\* of the stream or for its cancellation.  A frame that is not JSON or not an
\* object, a keep-alive and a message of unknown type change nothing, an error
\* message sets last_error and the state error, a data message with only errors
\* sets last_error; after each of them the task is still in the receive loop
\* of the same connection, where a data message is stored.
C24_OnlyCompleteEndsSession ==
    /\ [][\A t \in TaskIds :
            (tasks[t].pc = "receiving" /\ tasks'[t].pc = "closing") =>
                \/ Receive(t, Control("complete"))
                \/ \E clean \in BOOLEAN : StreamEnds(t, clean)
                \/ Cancelled(t)]_vars
    /\ [](\A t \in TaskIds :
            (Runs(t) /\ tasks[t].pc = "receiving") =>
                \A type \in {"bad_json", "not_object", "ka", "unknown"} :
                    /\ ENABLED Receive(t, Control(type))
                    /\ ~ENABLED (Receive(t, Control(type)) /\ vars' # vars))
    /\ [][\A t \in TaskIds :
            tasks[t].pc = "receiving" =>
                /\ Receive(t, Control("error")) =>
                      /\ tasks' = tasks
                      /\ connection_states'[tasks[t].name] = "error"
                      /\ last_error'[tasks[t].name] = "Subscription error"
                      /\ UNCHANGED resource_data
                /\ Receive(t, ErrorsOnly(t)) =>
                      /\ tasks' = tasks
                      /\ last_error'[tasks[t].name] = "GraphQL errors"
                      /\ UNCHANGED <<resource_data, connection_states>>]_vars

\* C24: an error message has been processed (the state is error) and the task
\* is still in the receive loop, where a data message was stored.
C24_Witness ==
    \E t \in TaskIds :
        /\ tasks[t].pc = "receiving"
        /\ connection_states[tasks[t].name] = "error"
        /\ last_error[tasks[t].name] = "Subscription error"
        /\ resource_data[tasks[t].name] # NoData

\* C25: processing a complete message writes the state completed and takes the
\* task out of the receive loop with no exception; the task then does nothing
\* but close the connection, which takes it to the backoff sleep with the next
\* delay and the state reconnecting (unless a stop cancels it); and from there
\* it comes to a new connection attempt, unless a stop cancels it or the
\* attempt counter exceeds the maximum.
C25_CompleteReconnects ==
    /\ [][\A t \in TaskIds :
            (tasks[t].pc = "receiving" /\ Receive(t, Control("complete"))) =>
                /\ connection_states'[tasks[t].name] = "completed"
                /\ tasks'[t].pc = "closing"
                /\ tasks'[t].exit = "none"]_vars
    /\ [][\A t \in TaskIds :
            (/\ tasks[t].pc = "closing"
             /\ tasks[t].exit = "none"
             /\ tasks'[t] # tasks[t]) =>
                \/ /\ Closed(t)
                   /\ tasks'[t].pc = "sleeping"
                   /\ tasks'[t].retry_delay = NextRetryDelay(tasks[t].retry_delay)
                   /\ connection_states'[tasks[t].name] = "reconnecting"
                \/ tasks'[t] = [tasks[t] EXCEPT !.cancel = TRUE]
                \/ Cancelled(t)]_vars
    /\ \A t \in TaskIds :
          (tasks[t].pc = "closing" /\ tasks[t].exit = "none")
             ~> \/ tasks[t].pc = "connecting"
                \/ tasks[t].cancel
                \/ /\ tasks[t].pc = "done"
                   /\ connection_states[tasks[t].name] = "max_retries_exceeded"

\* C25: the stream was completed (the pass after a successful connection ended
\* with no error) and the task is in its next attempt to connect, after the
\* backoff sleep.
C25_Witness ==
    \E t \in TaskIds :
        /\ tasks[t].pc = "connecting"
        /\ tasks[t].k = 1
        /\ failed_connects[tasks[t].name] = 0
        /\ last_error[tasks[t].name] = None
        /\ connection_states[tasks[t].name] = "reconnecting"

\* What the manager keeps for one name.
Fields(n) ==
    <<connection_states[n], reconnect_attempts[n], last_error[n],
      resource_data[n], active_subscriptions[n]>>

RecordedErrors ==
    {"Connection or authentication timeout", "WebSocket connection closed",
     "Invalid WebSocket URI", "Unexpected error", "Authentication error",
     "Invalid JSON in init response", "Subscription error", "GraphQL errors",
     "create_task_failed"}

C28_EndedLoopHasPermanentState ==
    \A n \in subscription_configs :
        (/\ active_subscriptions[n] # NoTask
         /\ tasks[active_subscriptions[n]].pc = "done"
         /\ lock_holder.op # "stop") =>
            get_subscription_status[n].connection_state \in
                {"max_retries_exceeded", "auth_failed", "invalid_uri"}

\* C29: with the auto-start flag off, a call of ensure_subscriptions_started
\* starts nothing: the step of a reader leaves the active set, the tasks and
\* the queue of the lock as they are.
\* Violated: autostart_subscriptions does not test the flag, and starts the log
\* subscription whenever a log path is found.
C29_DisabledStartsNothing ==
    [][(~auto_start_enabled /\ \E r \in ReaderIds : readers'[r] # readers[r]) =>
          UNCHANGED <<active_subscriptions, tasks, lock_waiters>>]_vars

\* C30: a cancelled loop task ends: the cancellation takes it straight to its
\* end, or, with a connection open, to the closing of the connection and then
\* to its end; no except clause lets it go on.  So a stop that awaits its task
\* eventually deregisters the name, returns and releases the lock; a stop for
\* a name whose task has already ended does so in the step in which it gets
\* the lock.  Only its own critical section takes the lock from a start or
\* stop that has been handed it, and the lock cannot stay handed over for ever
\* without critical sections being run; the queue of the lock changes only by
\* a call that joins at the end or by its first call leaving, and it cannot
\* stay occupied for ever without first calls leaving: so every call that
\* waits for the lock is served.
C30_StopReturns ==
    /\ [][\A t \in TaskIds :
            (tasks[t].cancel /\ tasks'[t] # tasks[t]) =>
                /\ Cancelled(t)
                /\ \/ tasks'[t].pc = "done"
                   \/ tasks'[t].pc = "closing" /\ tasks'[t].exit = "cancelled"]_vars
    /\ [][\A t \in TaskIds :
            (/\ tasks[t].pc = "closing"
             /\ tasks[t].exit = "cancelled"
             /\ tasks'[t] # tasks[t]) => tasks'[t].pc = "done"]_vars
    /\ [][(/\ lock_holder.phase # "await_task"
           /\ lock_holder'.phase # "await_task"
           /\ active_subscriptions[LogName] # NoTask
           /\ active_subscriptions'[LogName] = NoTask) =>
              /\ tasks[active_subscriptions[LogName]].pc = "done"
              /\ lock_holder' = ReleasedHolder
              /\ stop_returned'[LogName]]_vars
    /\ (lock_holder.phase = "await_task")
          ~> (stop_returned[LogName] /\ lock_holder.phase # "await_task")
    /\ [][(lock_holder.phase = "ready" /\ lock_holder' # lock_holder) =>
              (StartLocked \/ StopLocked)]_vars
    /\ <>[](lock_holder.phase = "ready") =>
          []<><<StartLocked \/ StopLocked>>_vars
    /\ [][lock_waiters' # lock_waiters =>
              \/ lock_waiters # <<>> /\ lock_waiters' = Tail(lock_waiters)
              \/ /\ Len(lock_waiters') = Len(lock_waiters) + 1
                 /\ SubSeq(lock_waiters', 1, Len(lock_waiters)) = lock_waiters]_vars
    /\ <>[](lock_waiters # <<>>) =>
          []<><<lock_waiters # <<>> /\ lock_waiters' = Tail(lock_waiters)>>_vars

\* C30: a stop has cancelled the loop task, the task has ended, the stop has
\* returned and the lock is free with nobody waiting.
C30_Witness ==
    /\ stop_returned[LogName]
    /\ connection_states[LogName] = "stopped"
    /\ active_subscriptions[LogName] = NoTask
    /\ lock_holder = NoLock
    /\ lock_waiters = <<>>
    /\ \E t \in TaskIds : tasks[t].name = LogName /\ tasks[t].pc = "done"

====
